---- MODULE Spec2Model ----
(***************************************************************************)
(* Model of the outbound-call control API (call_server.py) and of the      *)
(* telephony worker (agent.py).                                            *)
(*                                                                         *)
(* The HTTP handlers make_call, get_call_status and end_call each contain  *)
(* one gateway call; a handler is one action.  The worker entrypoint is a  *)
(* coroutine: every await is a position (pc) of the job, and the code      *)
(* between two awaits is one step.  The LiveKit server (rooms, dispatches, *)
(* SIP trunk) is the environment: the outcome of each gateway call is      *)
(* chosen nondeterministically.                                            *)
(***************************************************************************)
EXTENDS Integers, Sequences, FiniteSets, TLC

VARIABLES
    rooms,       \* trunk side: room name -> [exists, participants]
    jobs,        \* worker jobs, in order of creation; each runs entrypoint
    calls,       \* POST /make-call requests handled so far, with their responses
    resp,        \* the last HTTP response produced by the control API
    endedRooms   \* rooms with a successful end-call and no make-call since

vars == <<rooms, jobs, calls, resp, endedRooms>>

----------------------------------------------------------------------------
(* Bounds *)

MaxCalls == 2      \* POST /make-call requests
MaxInbound == 1    \* worker jobs that were not dispatched by make_call

----------------------------------------------------------------------------
(* Values *)

\* Python's None, for a phone number (a sequence of characters) and for a string
None == <<"<None>">>
NoneStr == "<None>"

\* request.phone_number values: characters as one-element strings
PhoneNumbers ==
    { <<"+", "1", "5">>,          \* accepted
      <<"1", "5">> }              \* no leading '+'

AGENT_NAME == "my-telephony-agent"

\* CallRequest.custom_instructions default
DefaultCallInstructions == "You are making an outbound call. Be polite and professional."

\* Assistant.__init__ default
DefaultAssistantInstructions == "You are a helpful voice AI assistant making an outbound phone call."

----------------------------------------------------------------------------
(* Pure functions of call_server.py *)

\* str.startswith(prefix) for a one-character prefix
startswith(s, ch) == Len(s) > 0 /\ s[1] = ch

\* str.replace(ch, ''): every occurrence of ch removed
RECURSIVE replace(_, _)
replace(s, ch) ==
    IF s = <<>> THEN <<>>
    ELSE IF Head(s) = ch THEN replace(Tail(s), ch)
         ELSE <<Head(s)>> \o replace(Tail(s), ch)

\* clean_number without the removal of spaces
clean_number_keeps_spaces(phone_number) ==
    replace(replace(replace(replace(phone_number, "+"), "-"), "("), ")")

clean_number(phone_number) ==
    replace(replace(replace(replace(replace(phone_number, "+"), "-"), "("), ")"), " ")

room_name_of(phone_number) == <<"outbound-call-">> \o clean_number(phone_number)

\* json.dumps(metadata) of make_call: a JSON object with both keys
json_dumps(phone_number, custom_instructions) ==
    [kind |-> "object", phone_number |-> phone_number,
     custom_instructions |-> custom_instructions]

----------------------------------------------------------------------------
(* The control API handlers, as functions of the request and of the outcome *)
(* of the one gateway call each of them makes.                              *)

\* make_call_try with the dispatch exception lost: success is returned
\* although create_dispatch failed
make_call_try_optimistic(phone_number, dispatch_ok) ==
    IF ~startswith(phone_number, "+")
    THEN [raised |-> "HTTPException", status_code |-> 400,
          called_dispatch |-> FALSE, success |-> FALSE, room_name |-> None]
    ELSE [raised |-> "no", status_code |-> 200,
          called_dispatch |-> TRUE, success |-> TRUE,
          room_name |-> room_name_of(phone_number)]

\* make_call_try without the validation of the phone number
make_call_try_unvalidated(phone_number, dispatch_ok) ==
    IF ~dispatch_ok
    THEN [raised |-> "Exception", status_code |-> 0,
          called_dispatch |-> TRUE, success |-> FALSE, room_name |-> None]
    ELSE [raised |-> "no", status_code |-> 200,
          called_dispatch |-> TRUE, success |-> TRUE,
          room_name |-> room_name_of(phone_number)]

\* The try block of make_call: the exception it raises, or the CallResponse
\* it returns.  create_dispatch is reached only past the validation.
make_call_try(phone_number, dispatch_ok) ==
    IF ~startswith(phone_number, "+")
    THEN [raised |-> "HTTPException", status_code |-> 400,
          called_dispatch |-> FALSE, success |-> FALSE, room_name |-> None]
    ELSE IF ~dispatch_ok
    THEN [raised |-> "Exception", status_code |-> 0,
          called_dispatch |-> TRUE, success |-> FALSE, room_name |-> None]
    ELSE [raised |-> "no", status_code |-> 200,
          called_dispatch |-> TRUE, success |-> TRUE,
          room_name |-> room_name_of(phone_number)]

\* make_call with the exception swallowed: the handler answers 200
make_call_swallow(phone_number, dispatch_ok) ==
    LET t == make_call_try(phone_number, dispatch_ok) IN
    [status_code |-> 200, success |-> TRUE, room_name |-> t.room_name,
     called_dispatch |-> t.called_dispatch]

\* make_call: `except Exception` catches whatever the try block raised,
\* HTTPException included, and raises HTTPException(500) in its place.
make_call(phone_number, dispatch_ok) ==
    LET t == make_call_try(phone_number, dispatch_ok) IN
    IF t.raised # "no"
    THEN [status_code |-> 500, success |-> FALSE, room_name |-> None,
          called_dispatch |-> t.called_dispatch]
    ELSE [status_code |-> t.status_code, success |-> t.success,
          room_name |-> t.room_name, called_dispatch |-> t.called_dispatch]

\* get_call_status with the empty answer not tested: rooms[0] raises
get_call_status_unchecked(room, list_ok) ==
    IF ~list_ok \/ ~room.exists
    THEN [status_code |-> 500, status |-> "error", participants |-> -1]
    ELSE [status_code |-> 200,
          status |-> IF room.num_participants > 0 THEN "active" ELSE "ended",
          participants |-> room.num_participants]

\* get_call_status with >= 0 for > 0
get_call_status_ge(room, list_ok) ==
    IF ~list_ok
    THEN [status_code |-> 500, status |-> "error", participants |-> -1]
    ELSE IF ~room.exists
    THEN [status_code |-> 200, status |-> "not_found", participants |-> -1]
    ELSE [status_code |-> 200,
          status |-> IF room.num_participants >= 0 THEN "active" ELSE "ended",
          participants |-> room.num_participants]

\* get_call_status: room is what list_rooms returned for the name
\* ([exists, num_participants]); list_ok is whether list_rooms returned.
get_call_status(room, list_ok) ==
    IF ~list_ok
    THEN [status_code |-> 500, status |-> "error", participants |-> -1]
    ELSE IF ~room.exists
    THEN [status_code |-> 200, status |-> "not_found", participants |-> -1]
    ELSE [status_code |-> 200,
          status |-> IF room.num_participants > 0 THEN "active" ELSE "ended",
          participants |-> room.num_participants]

\* end_call: delete_ok is whether delete_room returned.
end_call(delete_ok) ==
    IF delete_ok
    THEN [status_code |-> 200, success |-> TRUE]
    ELSE [status_code |-> 500, success |-> FALSE]

----------------------------------------------------------------------------
(* The worker: entrypoint of agent.py *)

\* json.loads(ctx.job.metadata) followed by the two dict.get calls; a
\* JSONDecodeError leaves both locals None.  A missing key reads as None.
parse_metadata(metadata) ==
    IF metadata.kind = "object"
    THEN [phone_number |-> metadata.phone_number,
          custom_instructions |-> metadata.custom_instructions]
    ELSE [phone_number |-> None, custom_instructions |-> NoneStr]

\* truthy with every value taken for a phone number
truthy_always(phone_number) == TRUE

\* Python truthiness of phone_number: neither None nor the empty string
truthy(phone_number) == phone_number # None /\ phone_number # <<>>

\* Assistant.__init__: custom_instructions or the default
assistant_instructions(custom_instructions) ==
    IF custom_instructions # NoneStr /\ custom_instructions # ""
    THEN custom_instructions
    ELSE DefaultAssistantInstructions

\* entrypoint at "Create and start the agent session": AgentSession and
\* Assistant(custom_instructions) are constructed, session.start is awaited.
start_session(job) ==
    [job EXCEPT !.session = "starting",
                !.instructions = assistant_instructions(job.custom_instructions),
                !.pc = "starting"]

\* after_connect with the session started before any dial
after_connect_session_first(job) ==
    LET m == IF job.metadata.kind = "empty"
             THEN [phone_number |-> None, custom_instructions |-> NoneStr]
             ELSE parse_metadata(job.metadata) IN
    start_session([job EXCEPT !.phone_number = m.phone_number,
                              !.custom_instructions = m.custom_instructions])

\* after_connect without the except json.JSONDecodeError clause
after_connect_uncaught(job) ==
    LET m == parse_metadata(job.metadata)
        j == [job EXCEPT !.phone_number = m.phone_number,
                         !.custom_instructions = m.custom_instructions] IN
    IF job.metadata.kind = "invalid"
    THEN [job EXCEPT !.pc = "crashed"]
    ELSE IF truthy(m.phone_number)
    THEN [j EXCEPT !.dial = "pending", !.pc = "dialing"]
    ELSE start_session(j)

\* entrypoint from the return of ctx.connect() to its next await: the
\* metadata is parsed when it is truthy (not the empty string); with a phone
\* number create_sip_participant is awaited, without one session.start.
after_connect(job) ==
    LET m == IF job.metadata.kind = "empty"
             THEN [phone_number |-> None, custom_instructions |-> NoneStr]
             ELSE parse_metadata(job.metadata)
        j == [job EXCEPT !.phone_number = m.phone_number,
                         !.custom_instructions = m.custom_instructions] IN
    IF truthy(m.phone_number)
    THEN [j EXCEPT !.dial = "pending", !.pc = "dialing"]
    ELSE start_session(j)

\* after_dial without the return that follows ctx.shutdown()
after_dial_no_return(job, outcome) ==
    LET j == [job EXCEPT !.dial = outcome] IN
    CASE outcome \in {"answered", "twirp_error"} -> start_session(j)
      [] OTHER -> [j EXCEPT !.pc = "crashed"]

\* entrypoint from the outcome of create_sip_participant to its next await:
\* a return goes on to the session, a TwirpError is caught and the job is
\* shut down (ctx.shutdown(); return), any other exception leaves entrypoint.
after_dial(job, outcome) ==
    LET j == [job EXCEPT !.dial = outcome] IN
    CASE outcome = "answered" -> start_session(j)
      [] outcome = "twirp_error" -> [j EXCEPT !.pc = "shutdown"]
      [] OTHER -> [j EXCEPT !.pc = "crashed"]

\* entrypoint from the return of session.start to its end: the greeting is
\* generated (and awaited) for a job whose phone_number is None.
after_session_start(job) ==
    IF job.phone_number = None
    THEN [job EXCEPT !.session = "started", !.greeted = TRUE, !.pc = "greeting"]
    ELSE [job EXCEPT !.session = "started", !.pc = "in_session"]

----------------------------------------------------------------------------
(* The in-call tools of Assistant.  job.am and job.end are the positions of *)
(* detected_answering_machine and of end_call in the job; job.replied and   *)
(* job.slept_ms are what detected_answering_machine has completed so far;   *)
(* job.deletes lists, in order, the delete_room requests the job issued.    *)

\* asyncio.sleep(0.5)
GRACE_MS == 500

\* hangup_call: get_job_context() is the running job's context, so
\* delete_room is requested for ctx.room.name
hangup_call(job, by) ==
    [job EXCEPT !.deletes = Append(@, [by |-> by, replied |-> job.replied,
                                       slept_ms |-> job.slept_ms])]

\* detected_answering_machine is invoked: generate_reply is awaited
am_invoke(job) == [job EXCEPT !.am = "replying"]

\* am_after_reply without the sleep: hangup_call right after the reply
am_after_reply_no_sleep(job) ==
    [hangup_call([job EXCEPT !.replied = TRUE], "answering_machine")
        EXCEPT !.am = "done"]

\* generate_reply returned: asyncio.sleep(0.5) is awaited
am_after_reply(job) == [job EXCEPT !.am = "sleeping", !.replied = TRUE]

\* the sleep is over: hangup_call
am_after_sleep(job) ==
    [hangup_call([job EXCEPT !.slept_ms = GRACE_MS], "answering_machine")
        EXCEPT !.am = "done"]

\* Assistant.end_call is invoked: hangup_call at once
end_invoke(job) ==
    [hangup_call(job, "end_call") EXCEPT !.end = "done"]

----------------------------------------------------------------------------
(* The trunk and dispatch gateways (the LiveKit server) *)

RoomNames ==
    { room_name_of(p) : p \in PhoneNumbers } \cup { <<"sip-inbound">> }

InboundRoom == <<"sip-inbound">>

NoRoom == [exists |-> FALSE, participants |-> {}]

\* a participant joins: the room is created when it does not exist
Join(rs, r, who) ==
    [rs EXCEPT ![r] = [exists |-> TRUE, participants |-> @.participants \cup {who}]]

Leave(rs, r, who) ==
    [rs EXCEPT ![r] = [@ EXCEPT !.participants = @ \ {who}]]

Agent(j) == <<"agent", j>>
SipParticipant(j) == <<"sip", j>>

\* create_dispatch accepted: the room exists from then on and a job of the
\* agent is scheduled for it with the metadata
NewJob(room, metadata, req) ==
    [room |-> room, metadata |-> metadata, req |-> req, pc |-> "assigned",
     phone_number |-> None, custom_instructions |-> NoneStr,
     dial |-> "none", session |-> "none", instructions |-> NoneStr,
     greeted |-> FALSE,
     am |-> "idle", end |-> "idle", replied |-> FALSE, slept_ms |-> 0,
     deletes |-> <<>>]

\* ListRooms(names=[r]): what get_call_status reads of the answer
ListRoom(r) ==
    [exists |-> rooms[r].exists,
     num_participants |-> Cardinality(rooms[r].participants)]

\* job metadata of a job that make_call did not dispatch
InboundMetadata ==
    { [kind |-> "empty", phone_number |-> None, custom_instructions |-> NoneStr],
      [kind |-> "invalid", phone_number |-> None, custom_instructions |-> NoneStr],
      [kind |-> "object", phone_number |-> None, custom_instructions |-> "Be brief."],
      [kind |-> "object", phone_number |-> <<>>, custom_instructions |-> NoneStr] }

Live(j) == jobs[j].pc \in {"assigned", "dialing", "starting", "greeting", "in_session"}
Connected(j) == jobs[j].pc \in {"dialing", "starting", "greeting", "in_session"}

NoResponse ==
    [op |-> "none", arg |-> None, status_code |-> 0, success |-> FALSE,
     status |-> "none", participants |-> -1, room_name |-> None,
     gateway_ok |-> FALSE, seen |-> [exists |-> FALSE, num_participants |-> 0],
     after_end |-> FALSE]

----------------------------------------------------------------------------
(* Initial state and actions *)

Init ==
    /\ rooms = [r \in RoomNames |-> NoRoom]
    /\ jobs = <<>>
    /\ calls = <<>>
    /\ resp = NoResponse
    /\ endedRooms = {}

\* POST /make-call with the given phone_number, create_dispatch succeeding
\* or not
MakeCallOf(phone_number, dispatch_ok) ==
        LET out == make_call(phone_number, dispatch_ok)
            req == Len(calls) + 1
            dispatched == out.called_dispatch /\ dispatch_ok
            room == room_name_of(phone_number) IN
        /\ Len(calls) < MaxCalls
        /\ calls' = Append(calls,
                [called_dispatch |-> out.called_dispatch, dispatch_ok |-> dispatch_ok,
                 status_code |-> out.status_code, success |-> out.success])
        /\ resp' = [NoResponse EXCEPT !.op = "make_call", !.arg = phone_number,
                        !.status_code = out.status_code, !.success = out.success,
                        !.room_name = out.room_name,
                        !.gateway_ok = dispatch_ok]
        /\ IF dispatched
           THEN /\ rooms' = [rooms EXCEPT ![room] = [@ EXCEPT !.exists = TRUE]]
                /\ jobs' = Append(jobs,
                       NewJob(room, json_dumps(phone_number, DefaultCallInstructions), req))
           ELSE UNCHANGED <<rooms, jobs>>
        /\ endedRooms' = endedRooms \ {room}

\* POST /make-call
MakeCall ==
    \E phone_number \in PhoneNumbers, dispatch_ok \in BOOLEAN :
        MakeCallOf(phone_number, dispatch_ok)

\* GET /call-status/{room_name}
GetCallStatus ==
    \E room_name \in RoomNames, list_ok \in BOOLEAN :
        LET out == get_call_status(ListRoom(room_name), list_ok) IN
        /\ resp' = [NoResponse EXCEPT !.op = "call_status", !.arg = room_name,
                        !.status_code = out.status_code,
                        !.success = (out.status_code = 200),
                        !.status = out.status, !.participants = out.participants,
                        !.gateway_ok = list_ok,
                        !.seen = IF list_ok THEN ListRoom(room_name) ELSE @,
                        !.after_end = list_ok /\ room_name \in endedRooms]
        /\ UNCHANGED <<rooms, jobs, calls, endedRooms>>

\* DELETE /end-call/{room_name}: delete_room removes the room with all its
\* participants when it returns
EndCall ==
    \E room_name \in RoomNames, delete_ok \in BOOLEAN :
        LET out == end_call(delete_ok) IN
        /\ resp' = [NoResponse EXCEPT !.op = "end_call", !.arg = room_name,
                        !.status_code = out.status_code, !.success = out.success,
                        !.gateway_ok = delete_ok,
                        !.seen = [@ EXCEPT !.exists = rooms[room_name].exists]]
        /\ rooms' = IF delete_ok THEN [rooms EXCEPT ![room_name] = NoRoom] ELSE rooms
        /\ endedRooms' = IF out.success THEN endedRooms \cup {room_name} ELSE endedRooms
        /\ UNCHANGED <<jobs, calls>>

\* a job of the agent that no make_call dispatched (an inbound call)
InboundJob ==
    \E metadata \in InboundMetadata :
        /\ Cardinality({j \in 1..Len(jobs) : jobs[j].req = 0}) < MaxInbound
        /\ jobs' = Append(jobs, NewJob(InboundRoom, metadata, 0))
        /\ rooms' = [rooms EXCEPT ![InboundRoom] = [@ EXCEPT !.exists = TRUE]]
        /\ UNCHANGED <<calls, resp, endedRooms>>

\* entrypoint: ctx.connect() returns, the agent is in the room
Connect(j) ==
    /\ j \in 1..Len(jobs)
    /\ jobs[j].pc = "assigned"
    /\ jobs' = [jobs EXCEPT ![j] = after_connect(@)]
    /\ rooms' = Join(rooms, jobs[j].room, Agent(j))
    /\ UNCHANGED <<calls, resp, endedRooms>>

\* create_sip_participant returns: the callee picked up and is in the room
SipAnswered(j) ==
    /\ jobs[j].pc = "dialing"
    /\ jobs' = [jobs EXCEPT ![j] = after_dial(@, "answered")]
    /\ rooms' = Join(rooms, jobs[j].room, SipParticipant(j))
    /\ UNCHANGED <<calls, resp, endedRooms>>

\* create_sip_participant raises: TwirpError (busy, declined, no answer), or
\* another exception; either way the job ends and its agent leaves the room
SipFailed(j) ==
    \E outcome \in {"twirp_error", "error"} :
        /\ jobs[j].pc = "dialing"
        /\ jobs' = [jobs EXCEPT ![j] = after_dial(@, outcome)]
        /\ rooms' = Leave(rooms, jobs[j].room, Agent(j))
        /\ UNCHANGED <<calls, resp, endedRooms>>

\* session.start returns
SessionStarted(j) ==
    /\ j \in 1..Len(jobs)
    /\ jobs[j].pc = "starting"
    /\ jobs' = [jobs EXCEPT ![j] = after_session_start(@)]
    /\ UNCHANGED <<rooms, calls, resp, endedRooms>>

\* the greeting's generate_reply returns: entrypoint is over, the session runs
GreetingDone(j) ==
    /\ j \in 1..Len(jobs)
    /\ jobs[j].pc = "greeting"
    /\ jobs' = [jobs EXCEPT ![j].pc = "in_session"]
    /\ UNCHANGED <<rooms, calls, resp, endedRooms>>

\* the pipeline invokes detected_answering_machine in a running session
AnsweringMachineDetected(j) ==
    /\ j \in 1..Len(jobs)
    /\ jobs[j].pc = "in_session"
    /\ jobs[j].am = "idle"
    /\ jobs' = [jobs EXCEPT ![j] = am_invoke(@)]
    /\ UNCHANGED <<rooms, calls, resp, endedRooms>>

\* the voicemail generate_reply returns
VoicemailReplyDone(j) ==
    /\ j \in 1..Len(jobs)
    /\ jobs[j].pc = "in_session"
    /\ jobs[j].am = "replying"
    /\ jobs' = [jobs EXCEPT ![j] = am_after_reply(@)]
    /\ UNCHANGED <<rooms, calls, resp, endedRooms>>

\* the sleep returns and hangup_call deletes the room
GraceElapsed(j) ==
    /\ j \in 1..Len(jobs)
    /\ jobs[j].pc = "in_session"
    /\ jobs[j].am = "sleeping"
    /\ jobs' = [jobs EXCEPT ![j] = am_after_sleep(@)]
    /\ rooms' = [rooms EXCEPT ![jobs[j].room] = NoRoom]
    /\ UNCHANGED <<calls, resp, endedRooms>>

\* the pipeline invokes Assistant.end_call in a running session: hangup_call
\* deletes the room
UserRequestedEnd(j) ==
    /\ j \in 1..Len(jobs)
    /\ jobs[j].pc = "in_session"
    /\ jobs[j].end = "idle"
    /\ jobs' = [jobs EXCEPT ![j] = end_invoke(@)]
    /\ rooms' = [rooms EXCEPT ![jobs[j].room] = NoRoom]
    /\ UNCHANGED <<calls, resp, endedRooms>>

\* the room of a connected job was deleted: the job is disconnected and ends
Disconnected(j) ==
    /\ j \in 1..Len(jobs)
    /\ Connected(j)
    /\ Agent(j) \notin rooms[jobs[j].room].participants
    /\ jobs' = [jobs EXCEPT ![j].pc = "shutdown"]
    /\ UNCHANGED <<rooms, calls, resp, endedRooms>>

\* the trunk closes a room that has no participant left
RoomClosed(r) ==
    /\ rooms[r].exists
    /\ rooms[r].participants = {}
    /\ \A j \in 1..Len(jobs) : jobs[j].room = r => ~Live(j)
    /\ rooms' = [rooms EXCEPT ![r] = NoRoom]
    /\ UNCHANGED <<jobs, calls, resp, endedRooms>>

\* the control API and the jobs it dispatches (these never greet: their
\* phone_number is set)
Next ==
    \/ MakeCall
    \/ GetCallStatus
    \/ EndCall
    \/ \E j \in 1..Len(jobs) : Connect(j)
    \/ \E j \in 1..Len(jobs) : SipAnswered(j)
    \/ \E j \in 1..Len(jobs) : SipFailed(j)
    \/ \E j \in 1..Len(jobs) : SessionStarted(j)
    \/ \E j \in 1..Len(jobs) : Disconnected(j)
    \/ \E r \in RoomNames : RoomClosed(r)

Spec == Init /\ [][Next]_vars

\* the worker alone: jobs that no make_call dispatched, their in-call tools
\* and the end of a call (such a job leaves its room only with the room)
NextWorker ==
    \/ InboundJob
    \/ EndCall
    \/ \E j \in 1..Len(jobs) : Connect(j)
    \/ \E j \in 1..Len(jobs) : SessionStarted(j)
    \/ \E j \in 1..Len(jobs) : GreetingDone(j)
    \/ \E j \in 1..Len(jobs) : AnsweringMachineDetected(j)
    \/ \E j \in 1..Len(jobs) : VoicemailReplyDone(j)
    \/ \E j \in 1..Len(jobs) : GraceElapsed(j)
    \/ \E j \in 1..Len(jobs) : UserRequestedEnd(j)
    \/ \E j \in 1..Len(jobs) : Disconnected(j)

SpecWorker == Init /\ [][NextWorker]_vars

\* every await of a running job returns: the event loop runs each ready
\* coroutine, and generate_reply and asyncio.sleep(0.5) end
WorkerFairness ==
    \A j \in 1..MaxInbound :
        /\ WF_vars(Connect(j))
        /\ WF_vars(SessionStarted(j))
        /\ WF_vars(GreetingDone(j))
        /\ WF_vars(VoicemailReplyDone(j))
        /\ WF_vars(GraceElapsed(j))
        /\ WF_vars(Disconnected(j))

SpecWorkerFair == SpecWorker /\ WorkerFairness

----------------------------------------------------------------------------
(* make_call on every phone number of a bounded length: the request is in   *)
(* resp (op "request") until it is handled.                                 *)

MaxPhoneLen == 3

PhoneChars == {"+", "-", "(", ")", " ", "1", "a"}

AnyPhoneNumbers == UNION { [1..n -> PhoneChars] : n \in 0..MaxPhoneLen }

InitNorm ==
    /\ \E phone_number \in AnyPhoneNumbers :
          /\ resp = [NoResponse EXCEPT !.op = "request", !.arg = phone_number]
          /\ rooms = [r \in {room_name_of(phone_number)} |-> NoRoom]
    /\ jobs = <<>>
    /\ calls = <<>>
    /\ endedRooms = {}

HandleRequest ==
    /\ resp.op = "request"
    /\ \E dispatch_ok \in BOOLEAN : MakeCallOf(resp.arg, dispatch_ok)

NextNorm == HandleRequest

SpecNorm == InitNorm /\ [][NextNorm]_vars

----------------------------------------------------------------------------
(* Properties *)

LacksLeadingPlus(phone_number) == phone_number = <<>> \/ Head(phone_number) # "+"

JobIds == 1..Len(jobs)
CallIds == 1..Len(calls)

\* C1: a make-call whose phone_number does not start with '+' is answered
\* with HTTP 400.
C1_BadNumberIs400 ==
    (resp.op = "make_call" /\ LacksLeadingPlus(resp.arg)) => resp.status_code = 400

\* C2: a make-call whose phone_number lacks the leading '+' has no side
\* effect: create_dispatch is not called, and the rooms and the jobs (so the
\* SIP requests) are what they were before the request.
C2_BadNumberNoSideEffects ==
    [][(Len(calls') = Len(calls) + 1 /\ LacksLeadingPlus(resp'.arg))
          => /\ ~calls'[Len(calls')].called_dispatch
             /\ ~resp'.success
             /\ UNCHANGED <<rooms, jobs>>]_vars

C2_Witness ==
    /\ resp.op = "make_call"
    /\ LacksLeadingPlus(resp.arg)
    /\ jobs = <<>>
    /\ \A r \in RoomNames : ~rooms[r].exists

\* C3: at no time is more than one dial of a dispatched job in flight or
\* answered in one room.
C3_OneCallPerRoom ==
    \A r \in RoomNames :
        Cardinality({j \in JobIds : /\ jobs[j].room = r
                                    /\ jobs[j].req > 0
                                    /\ Live(j)
                                    /\ jobs[j].dial \in {"pending", "answered"}}) <= 1

\* C4: a job whose create_sip_participant failed never constructs or starts
\* the session and never greets; on a TwirpError it is shut down.
C4_FailedDialNoSession ==
    \A j \in JobIds :
        jobs[j].dial \in {"twirp_error", "error"}
            => /\ jobs[j].session = "none"
               /\ ~jobs[j].greeted
               /\ jobs[j].pc \in {"shutdown", "crashed"}
               /\ (jobs[j].dial = "twirp_error" => jobs[j].pc = "shutdown")

C4_Witness ==
    \E j \in JobIds : jobs[j].dial = "twirp_error" /\ jobs[j].pc = "shutdown"

C6_DispatchFailureNoTrunk ==
    \A i \in CallIds :
        (calls[i].called_dispatch /\ ~calls[i].dispatch_ok)
            => /\ calls[i].status_code = 500
               /\ ~calls[i].success
               /\ \A j \in JobIds : jobs[j].req # i

C6_Witness ==
    \E i \in CallIds :
        /\ calls[i].called_dispatch /\ ~calls[i].dispatch_ok
        /\ calls[i].status_code = 500
        /\ \E j \in JobIds : jobs[j].dial = "answered"

\* C7: end-call on a room that does not exist (ended, deleted or never
\* created) returns success.
C7_EndCallOnMissingRoomSucceeds ==
    (resp.op = "end_call" /\ ~resp.seen.exists)
        => resp.status_code = 200 /\ resp.success

\* C8 as stated: call-status never produces an error: the result is always
\* one of not_found, active, ended.
C8_StatusNeverErrors ==
    resp.op = "call_status"
        => /\ resp.status_code = 200
           /\ resp.status \in {"not_found", "active", "ended"}

\* C8 amended: whenever list_rooms returns, call-status answers one of
\* not_found, active, ended, and not_found for a room the trunk does not
\* know; when list_rooms fails it answers HTTP 500.
C8_StatusErrorsOnlyOnGatewayFailure ==
    resp.op = "call_status"
        => IF resp.gateway_ok
           THEN /\ resp.status_code = 200
                /\ resp.status \in {"not_found", "active", "ended"}
                /\ (~resp.seen.exists => resp.status = "not_found")
           ELSE resp.status_code = 500

C8_Witness ==
    /\ resp.op = "call_status"
    /\ resp.gateway_ok
    /\ ~resp.seen.exists
    /\ resp.status = "not_found"

\* C9: when list_rooms returns, call-status is not_found iff the room is
\* absent, active iff it exists with participants, ended iff it exists with
\* none, and for an existing room participants is the trunk's count.
C9_StatusMatchesTrunk ==
    (resp.op = "call_status" /\ resp.gateway_ok)
        => /\ resp.status = "not_found" <=> ~resp.seen.exists
           /\ resp.status = "active"
                 <=> (resp.seen.exists /\ resp.seen.num_participants > 0)
           /\ resp.status = "ended"
                 <=> (resp.seen.exists /\ resp.seen.num_participants = 0)
           /\ resp.seen.exists => resp.participants = resp.seen.num_participants

C9_Witness ==
    /\ resp.op = "call_status"
    /\ resp.gateway_ok
    /\ resp.seen.exists
    /\ resp.seen.num_participants = 0
    /\ resp.status = "ended"

\* C10: a status query for a room that follows a successful end-call of
\* that room, with no make-call for it in between, never answers active.
C10_NeverActiveAfterEndCall ==
    (resp.op = "call_status" /\ resp.after_end)
        => resp.status \in {"not_found", "ended"}

\* C11: in a job where the answering-machine action fired, the room delete
\* is requested at most once, whatever else is signalled.
C11_TerminatesOnce ==
    \A j \in JobIds : jobs[j].am # "idle" => Len(jobs[j].deletes) <= 1

\* C12: a job that is awaiting pickup when its room has been deleted (its
\* agent is no longer in the room) does not go on to the session.
C12_DeleteCancelsDial ==
    [][\A j \in JobIds :
          (jobs[j].pc = "dialing" /\ Agent(j) \notin rooms[jobs[j].room].participants)
              => jobs'[j].session = "none"]_vars

RoomTerminal(r) ==
    /\ \E j \in JobIds : jobs[j].room = r
    /\ \A j \in JobIds : jobs[j].room = r => ~Live(j)

JobTerminal(j) ==
    \/ jobs[j].pc \in {"shutdown", "crashed"}
    \/ jobs[j].dial \in {"twirp_error", "error"}

\* C13 as stated: once the call of a room name is Ended or Failed (every job
\* dispatched into the room has ended), it stays so.
C13_RoomTerminalIsAbsorbing ==
    [][\A r \in RoomNames : RoomTerminal(r) => RoomTerminal(r)']_vars

\* C13 amended: Ended and Failed are absorbing for a dispatched job: once
\* its dial failed or it was shut down, no step changes the job again (it
\* never starts a session); the room name may be used by a later job.
C13_JobTerminalIsAbsorbing ==
    [][\A j \in JobIds : JobTerminal(j) => jobs'[j] = jobs[j]]_vars

C13_Witness ==
    \E j, k \in JobIds :
        /\ jobs[j].dial = "twirp_error"
        /\ jobs[k].room = jobs[j].room
        /\ jobs[k].req > jobs[j].req
        /\ jobs[k].session = "started"

Separators == {"+", "-", "(", ")", " "}
Digits == {"0", "1", "2", "3", "4", "5", "6", "7", "8", "9"}
NotSeparator(ch) == ch \notin Separators
Stripped(phone_number) == SelectSeq(phone_number, NotSeparator)

\* C14: for an accepted phone number the room name is 'outbound-call-'
\* followed by the number without its '+', '-', '(', ')' and spaces, both in
\* the response and in the dispatch.
C14_RoomNameIsStrippedNumber ==
    (resp.op = "make_call" /\ resp.success)
        => /\ resp.room_name = <<"outbound-call-">> \o Stripped(resp.arg)
           /\ Len(jobs) = 1
           /\ jobs[1].room = <<"outbound-call-">> \o Stripped(resp.arg)

C14_Witness ==
    /\ resp.op = "make_call"
    /\ resp.success
    /\ resp.arg = <<"+", "1", " ">>
    /\ resp.room_name = <<"outbound-call-", "1">>

\* C15: a make-call whose number, once stripped, holds a non-digit is
\* rejected and dispatches nothing.
C15_NonDigitRejected ==
    (resp.op = "make_call"
        /\ \E i \in 1..Len(Stripped(resp.arg)) : Stripped(resp.arg)[i] \notin Digits)
        => ~resp.success /\ jobs = <<>>

NoPhoneNumber(metadata) ==
    \/ metadata.kind = "empty"
    \/ metadata.kind = "object" /\ metadata.phone_number = None

\* C16: a job without metadata, or whose metadata has no phone_number,
\* never issues a SIP participant request; once connected it is at the
\* session start.
C16_NoPhoneNoDial ==
    \A j \in JobIds :
        NoPhoneNumber(jobs[j].metadata)
            => /\ jobs[j].dial = "none"
               /\ jobs[j].pc # "dialing"
               /\ (jobs[j].pc # "assigned" => jobs[j].session # "none")

C16_Witness ==
    \E j \in JobIds :
        /\ jobs[j].metadata.kind = "object"
        /\ NoPhoneNumber(jobs[j].metadata)
        /\ jobs[j].session = "started"

\* C17: for a job dispatched by make-call the steps are ordered: the
\* dispatch exists before the job does anything, the SIP request is issued
\* only by a connected job, and the session is constructed only after the
\* pickup was confirmed.
C17_OutboundOrder ==
    \A j \in JobIds :
        jobs[j].req > 0
            => /\ calls[jobs[j].req].called_dispatch /\ calls[jobs[j].req].dispatch_ok
               /\ (jobs[j].pc = "assigned" => jobs[j].dial = "none")
               /\ (jobs[j].dial = "pending" => jobs[j].session = "none")
               /\ (jobs[j].session # "none" => jobs[j].dial = "answered")

C17_Witness ==
    \E j \in JobIds :
        /\ jobs[j].req > 0
        /\ jobs[j].dial = "answered"
        /\ jobs[j].session = "started"

AmReplied(j) == j \in JobIds /\ jobs[j].replied

AmDeleteRequested(j) ==
    /\ j \in JobIds
    /\ \E i \in 1..Len(jobs[j].deletes) : jobs[j].deletes[i].by = "answering_machine"

JobEnded(j) == j \in JobIds /\ ~Live(j)

\* C18 as stated (its liveness part): once the voicemail reply generation
\* has returned, the answering-machine action eventually requests the room
\* delete.
C18_DeleteEventuallyRequested ==
    \A j \in 1..MaxInbound : [](AmReplied(j) => <>AmDeleteRequested(j))

\* C18 amended: the answering-machine action requests the room delete only
\* after the reply has returned and the grace interval has elapsed; the
\* user-requested-end action requests it in the step in which it is invoked;
\* and once the reply has returned the answering-machine action eventually
\* requests the delete unless the job ends first.
C18_GraceThenDelete ==
    /\ [](\A j \in JobIds : \A i \in 1..Len(jobs[j].deletes) :
             jobs[j].deletes[i].by = "answering_machine"
                 => jobs[j].deletes[i].replied /\ jobs[j].deletes[i].slept_ms = 500)
    /\ [][\A j \in JobIds :
             (jobs[j].end = "idle" /\ jobs'[j].end # "idle")
                 => /\ Len(jobs'[j].deletes) = Len(jobs[j].deletes) + 1
                    /\ jobs'[j].deletes[Len(jobs'[j].deletes)].by = "end_call"]_vars
    /\ \A j \in 1..MaxInbound :
             AmReplied(j) ~> (AmDeleteRequested(j) \/ JobEnded(j))

C18_Witness ==
    \E j \in JobIds :
        /\ AmDeleteRequested(j)
        /\ jobs[j].end = "idle"

\* C19: a job whose session has started has greeted exactly when it placed
\* no SIP dial.
C19_GreetsIffNoDial ==
    \A j \in JobIds :
        jobs[j].session = "started" => (jobs[j].greeted <=> jobs[j].dial = "none")

\* C20: a job whose metadata is not valid JSON does not fail: it places no
\* dial, its session is constructed with the default instructions, and once
\* the session has started the greeting is sent.
C20_InvalidMetadataIsInbound ==
    \A j \in JobIds :
        jobs[j].metadata.kind = "invalid"
            => /\ jobs[j].pc # "crashed"
               /\ jobs[j].dial = "none"
               /\ (jobs[j].pc # "assigned"
                     => /\ jobs[j].session # "none"
                        /\ jobs[j].instructions
                             = "You are a helpful voice AI assistant making an outbound phone call.")
               /\ (jobs[j].session = "started" => jobs[j].greeted)

C20_Witness ==
    \E j \in JobIds :
        /\ jobs[j].metadata.kind = "invalid"
        /\ jobs[j].session = "started"
        /\ jobs[j].greeted
        /\ jobs[j].pc = "in_session"

TypeOK ==
    /\ \A j \in 1..Len(jobs) :
          jobs[j].pc \in {"assigned", "dialing", "starting", "greeting",
                          "in_session", "shutdown", "crashed"}
    /\ Len(calls) <= MaxCalls

====
